---- MODULE Spec2Model ----
(***************************************************************************)
(* Model of challenge-2/devui_launcher.py: the environment gate            *)
(* (check_environment), the workflow construction and serve() call of      *)
(* launch_workflow_devui, and the exit-code handling of main.              *)
(***************************************************************************)
EXTENDS Integers, Sequences, FiniteSets, TLC

\* ---------------------------------------------------------------- bounds
\* number of distinct explicit --port values tried besides "flag absent"
NumPorts == 2

\* ------------------------------------------------------------- constants
DefaultPort == 8083

required_vars ==
    << "AI_FOUNDRY_PROJECT_ENDPOINT", "MODEL_DEPLOYMENT_NAME", "COSMOS_ENDPOINT",
       "COSMOS_KEY", "MCP_SERVER_ENDPOINT", "APIM_SUBSCRIPTION_KEY",
       "FRAUD_ALERT_AGENT_ID" >>

RequiredKeys == { required_vars[i] : i \in 1..Len(required_vars) }

\* what os.environ holds for a key: absent, the empty string, or some text
EnvValues == { "UNSET", "", "value" }

\* the four names imported from sequential_workflow_chal2
Executors ==
    { "customer_data_executor", "risk_analyzer_executor",
      "compliance_report_executor", "fraud_alert_executor" }

\* the values following --port on the command line: none when the flag is
\* absent, else the one integer given
PortArgs == { << >> } \cup { << 9000 + i >> : i \in 0..(NumPorts - 1) }

\* exception classes that the collaborators can raise into the launcher
Raisable == { "ImportError", "OSError", "Exception", "KeyboardInterrupt" }

None == "None"

VARIABLES
    pc,             \* position of the single thread of main
    env,            \* os.environ restricted to the required keys
    argv,           \* command line: [port, no_env_check]
    args,           \* result of parser.parse_args(), None before
    envCheckCalls,  \* number of calls of check_environment
    checkResult,    \* value returned by check_environment, None before
    missing_vars,   \* the list check_environment printed
    out,            \* status lines printed, in order
    launchCalls,    \* number of entries into launch_workflow_devui
    port,           \* parameter port of launch_workflow_devui
    cwd,            \* process working directory
    imported,       \* names bound by the import statements of launch
    unresolved,     \* executor names the import found missing
    builderCalls,   \* calls made on the WorkflowBuilder, in order
    buildCalls,     \* number of .build() calls
    workflow,       \* the built workflow, None before
    serveCalls,     \* the calls of serve(), in order
    raised,         \* exception class raised into the launcher, None if none
    raisedAt,       \* pc at which it was raised
    exitCode        \* process exit status, -1 while running

vars == << pc, env, argv, args, envCheckCalls, checkResult, missing_vars, out,
           launchCalls, port, cwd, imported, unresolved, builderCalls,
           buildCalls, workflow, serveCalls, raised, raisedAt, exitCode >>


\* ------------------------------------------------- check_environment
\* os.environ.get(var): None for an absent key, else the string stored
EnvGet(e, var) == IF e[var] = "UNSET" THEN None ELSE e[var]

\* variant: only None counts as falsy
TruthyNotNone(v) == v # None

\* Python truthiness of what os.environ.get returns: None and "" are falsy
Truthy(v) == v # None /\ v # ""

\* the loop of check_environment over required_vars[i..], appending every
\* variable whose value is falsy
RECURSIVE CollectMissing(_, _, _)
CollectMissing(e, i, acc) ==
    IF i > Len(required_vars) THEN acc
    ELSE CollectMissing(e, i + 1,
             IF ~Truthy(EnvGet(e, required_vars[i]))
                 THEN Append(acc, required_vars[i])
                 ELSE acc)

\* variant: the scan stops at the first falsy variable
MissingVarsFirstOnly(e) ==
    IF CollectMissing(e, 1, << >>) = << >> THEN << >>
    ELSE << CollectMissing(e, 1, << >>)[1] >>

MissingVars(e) == CollectMissing(e, 1, << >>)

\* return value of check_environment for the list it collected
CheckReturn(missing) == missing = << >>

\* ----------------------------------------------------------- argparse
\* variant: the parsed value is dropped
ParsePortDefaultOnly(portArg) == DefaultPort

\* args.port: the value of --port, or the default
ParsePort(portArg) == IF portArg = << >> THEN DefaultPort ELSE portArg[1]

\* ---------------------------------------------------------- main gate
\* variant: check_environment is called before the flag is looked at
CallsCheckAlways(a) == TRUE

\* the right operand of `and` is evaluated only when the left one is true
CallsCheck(a) == ~a.no_env_check

\* variant: the result of check_environment is read the wrong way round
GateExitsInverted(a, ok) == ~a.no_env_check /\ ok

\* variant: the gate reports and goes on
GateExitsNever(a, ok) == FALSE

\* `if not args.no_env_check and not check_environment(): sys.exit(1)`
GateExits(a, ok) == ~a.no_env_check /\ ~ok

\* ------------------------------------------------- exception handling
IsException(kind) == kind \in { "ImportError", "OSError", "Exception" }
IsImportError(kind) == kind = "ImportError"

\* variant: the second clause is a bare `except:`
LaunchHandlerBare(kind) ==
    IF IsImportError(kind) THEN "import_error" ELSE "launch_error"

\* variant: `except Exception` is tried before `except ImportError`
LaunchHandlerSwapped(kind) ==
    IF IsException(kind) THEN "launch_error"
    ELSE IF IsImportError(kind) THEN "import_error"
    ELSE "propagate"

\* the except clauses of launch_workflow_devui, tried in order
LaunchHandler(kind) ==
    IF IsImportError(kind) THEN "import_error"
    ELSE IF IsException(kind) THEN "launch_error"
    ELSE "propagate"

\* variant: the first clause of main catches every BaseException left over
MainHandlerSwallow(kind) ==
    IF IsException(kind) THEN "launch_error" ELSE "stopped"

\* the except clauses of main, tried in order
MainHandler(kind) ==
    IF kind = "KeyboardInterrupt" THEN "stopped"
    ELSE IF IsException(kind) THEN "launch_error"
    ELSE "propagate"

\* what main does with an exception leaving launch_workflow_devui;
\* code is the status a SystemExit carries.  Result: <<exit status, lines>>
MainOutcome(kind, code) ==
    CASE MainHandler(kind) = "stopped"      -> << 0, << "stopped_by_user" >> >>
      [] MainHandler(kind) = "launch_error" -> << 1, << "error_launching" >> >>
      [] OTHER                              -> << code, << >> >>

\* an exception raised inside the try block of launch_workflow_devui
TryOutcome(kind) ==
    CASE LaunchHandler(kind) = "import_error" ->
             << MainOutcome("SystemExit", 1)[1],
                << "error_importing" >> \o MainOutcome("SystemExit", 1)[2] >>
      [] LaunchHandler(kind) = "launch_error" ->
             << MainOutcome("SystemExit", 1)[1],
                << "error_launching" >> \o MainOutcome("SystemExit", 1)[2] >>
      [] OTHER -> MainOutcome(kind, 1)

\* ------------------------------------------------------ WorkflowBuilder
\* variant: the last edge chains on instead of fanning out
ChainedCallsSequential ==
    << [op |-> "set_start_executor", src |-> "customer_data_executor",
        dst |-> "customer_data_executor"],
       [op |-> "add_edge", src |-> "customer_data_executor",
        dst |-> "risk_analyzer_executor"],
       [op |-> "add_edge", src |-> "risk_analyzer_executor",
        dst |-> "compliance_report_executor"],
       [op |-> "add_edge", src |-> "compliance_report_executor",
        dst |-> "fraud_alert_executor"] >>

\* the chained calls made on the WorkflowBuilder, in source order
ChainedCalls ==
    << [op |-> "set_start_executor", src |-> "customer_data_executor",
        dst |-> "customer_data_executor"],
       [op |-> "add_edge", src |-> "customer_data_executor",
        dst |-> "risk_analyzer_executor"],
       [op |-> "add_edge", src |-> "risk_analyzer_executor",
        dst |-> "compliance_report_executor"],
       [op |-> "add_edge", src |-> "risk_analyzer_executor",
        dst |-> "fraud_alert_executor"] >>

\* the builder after calls[i..] have been applied to builder b
RECURSIVE ApplyCalls(_, _, _)
ApplyCalls(calls, i, b) ==
    IF i > Len(calls) THEN b
    ELSE ApplyCalls(calls, i + 1,
             IF calls[i].op = "set_start_executor"
                 THEN [b EXCEPT !.start = << calls[i].src >>]
                 ELSE [b EXCEPT !.edges =
                           Append(@, << calls[i].src, calls[i].dst >>)])

\* .build(): the graph handle made of what the builder was told
Build(b) ==
    [ start     |-> b.start,
      edges     |-> b.edges,
      executors |-> { b.start[i] : i \in 1..Len(b.start) }
                    \cup { b.edges[i][1] : i \in 1..Len(b.edges) }
                    \cup { b.edges[i][2] : i \in 1..Len(b.edges) } ]

\* the expression `WorkflowBuilder(...).set_start_executor(...)...build()`
BuiltWorkflow == Build(ApplyCalls(ChainedCalls, 1, [start |-> << >>, edges |-> << >>]))

\* the keyword arguments of the serve() call
ServeArgs(wf, p) == [entities |-> << wf >>, port |-> p, auto_open |-> TRUE]

\* ------------------------------------------------------------- actions
Init ==
    /\ pc = "main"
    /\ env \in [RequiredKeys -> EnvValues]
    /\ argv \in [port : PortArgs, no_env_check : BOOLEAN]
    /\ args = << >>
    /\ envCheckCalls = 0
    /\ checkResult = << >>
    /\ missing_vars = << >>
    /\ out = << >>
    /\ launchCalls = 0
    /\ port = << >>
    /\ cwd = "start_dir"
    /\ imported = {}
    /\ unresolved = {}
    /\ builderCalls = << >>
    /\ buildCalls = 0
    /\ workflow = << >>
    /\ serveCalls = << >>
    /\ raised = None
    /\ raisedAt = None
    /\ exitCode = -1

\* the process ends with status res[1] after printing res[2]
Terminate(res, kind) ==
    /\ pc' = "exited"
    /\ exitCode' = res[1]
    /\ out' = out \o res[2]
    /\ raised' = kind
    /\ raisedAt' = pc

\* main up to the banner: parse_args, setup_logging, the three banner lines
ParseArgs ==
    /\ pc = "main"
    /\ args' = << [port |-> ParsePort(argv.port),
                   no_env_check |-> argv.no_env_check] >>
    /\ out' = Append(out, "banner")
    /\ pc' = "gate"
    /\ UNCHANGED << env, argv, envCheckCalls, checkResult, missing_vars,
                    launchCalls, port, cwd, imported, unresolved, builderCalls,
                    buildCalls, workflow, serveCalls, raised, raisedAt, exitCode >>

\* `if not args.no_env_check and not check_environment(): sys.exit(1)`,
\* the call of check_environment included
EnvGate ==
    /\ pc = "gate"
    /\ LET a       == args[1]
           called  == CallsCheck(a)
           missing == MissingVars(env)
           ok      == IF called THEN CheckReturn(missing) ELSE TRUE
           lines   == IF ~called THEN << >>
                      ELSE IF ok THEN << "env_ok" >>
                      ELSE << "missing_header" >> \o missing \o << "please_set" >>
       IN  /\ envCheckCalls' = IF called THEN envCheckCalls + 1 ELSE envCheckCalls
           /\ checkResult' = IF called THEN << ok >> ELSE checkResult
           /\ missing_vars' = IF called THEN missing ELSE missing_vars
           /\ out' = out \o lines
           /\ IF GateExits(a, ok)
                  THEN pc' = "exited" /\ exitCode' = 1
                  ELSE pc' = "launch" /\ exitCode' = exitCode
    /\ UNCHANGED << env, argv, args, launchCalls, port, cwd, imported,
                    unresolved, builderCalls, buildCalls, workflow, serveCalls,
                    raised, raisedAt >>

\* main calls launch_workflow_devui(args.port); its first statement, outside
\* the try block, imports serve
LaunchImportServe ==
    /\ pc = "launch"
    /\ launchCalls' = launchCalls + 1
    /\ port' = << args[1].port >>
    /\ \/ /\ imported' = imported \cup { "serve" }
          /\ pc' = "chdir"
          /\ UNCHANGED << out, raised, raisedAt, exitCode >>
       \/ /\ \E kind \in Raisable : Terminate(MainOutcome(kind, 1), kind)
          /\ UNCHANGED imported
    /\ UNCHANGED << env, argv, args, envCheckCalls, checkResult, missing_vars,
                    cwd, unresolved, builderCalls, buildCalls, workflow,
                    serveCalls >>

\* os.chdir(agents_dir)
Chdir ==
    /\ pc = "chdir"
    /\ \/ /\ cwd' = "agents_dir"
          /\ pc' = "import_executors"
          /\ UNCHANGED << out, raised, raisedAt, exitCode >>
       \/ /\ \E kind \in Raisable : Terminate(TryOutcome(kind), kind)
          /\ UNCHANGED cwd
    /\ UNCHANGED << env, argv, args, envCheckCalls, checkResult, missing_vars,
                    launchCalls, port, imported, unresolved, builderCalls,
                    buildCalls, workflow, serveCalls >>

\* `from sequential_workflow_chal2 import (...)`: missing names the module
\* does not provide; a name that cannot be imported raises ImportError
ImportExecutors ==
    /\ pc = "import_executors"
    /\ \/ /\ imported' = imported \cup Executors
          /\ pc' = "import_builder"
          /\ UNCHANGED << unresolved, out, raised, raisedAt, exitCode >>
       \/ /\ \E missing \in (SUBSET Executors) \ { {} } :
                 /\ unresolved' = missing
                 /\ Terminate(TryOutcome("ImportError"), "ImportError")
          /\ UNCHANGED imported
       \/ /\ \E kind \in Raisable \ { "ImportError" } :
                 Terminate(TryOutcome(kind), kind)
          /\ UNCHANGED << imported, unresolved >>
    /\ UNCHANGED << env, argv, args, envCheckCalls, checkResult, missing_vars,
                    launchCalls, port, cwd, builderCalls, buildCalls, workflow,
                    serveCalls >>

\* `from agent_framework import WorkflowBuilder`
ImportBuilder ==
    /\ pc = "import_builder"
    /\ \/ /\ imported' = imported \cup { "WorkflowBuilder" }
          /\ pc' = "build"
          /\ UNCHANGED << out, raised, raisedAt, exitCode >>
       \/ /\ \E kind \in Raisable : Terminate(TryOutcome(kind), kind)
          /\ UNCHANGED imported
    /\ UNCHANGED << env, argv, args, envCheckCalls, checkResult, missing_vars,
                    launchCalls, port, cwd, unresolved, builderCalls,
                    buildCalls, workflow, serveCalls >>

\* the builder expression: either every chained call and build() succeed, or
\* an exception leaves it after the first n chained calls (n = all of them:
\* build() itself raised)
BuildWorkflow ==
    /\ pc = "build"
    /\ \/ /\ builderCalls' = ChainedCalls
          /\ buildCalls' = buildCalls + 1
          /\ workflow' = << BuiltWorkflow >>
          /\ pc' = "serve"
          /\ UNCHANGED << out, raised, raisedAt, exitCode >>
       \/ /\ \E n \in 0..Len(ChainedCalls) :
                 /\ builderCalls' = SubSeq(ChainedCalls, 1, n)
                 /\ buildCalls' = IF n = Len(ChainedCalls)
                                      THEN buildCalls + 1 ELSE buildCalls
          /\ \E kind \in Raisable : Terminate(TryOutcome(kind), kind)
          /\ UNCHANGED workflow
    /\ UNCHANGED << env, argv, args, envCheckCalls, checkResult, missing_vars,
                    launchCalls, port, cwd, imported, unresolved, serveCalls >>

\* the launch banner and the call `serve(entities=[workflow], port=port,
\* auto_open=True)`, which blocks
ServeCall ==
    /\ pc = "serve"
    /\ out' = Append(out, "launching")
    /\ serveCalls' = Append(serveCalls, ServeArgs(workflow[1], port[1]))
    /\ pc' = "serving"
    /\ UNCHANGED << env, argv, args, envCheckCalls, checkResult, missing_vars,
                    launchCalls, port, cwd, imported, unresolved, builderCalls,
                    buildCalls, workflow, raised, raisedAt, exitCode >>

\* serve() returns; launch_workflow_devui and main return after it
ServeReturn ==
    /\ pc = "serving"
    /\ pc' = "exited"
    /\ exitCode' = 0
    /\ UNCHANGED << env, argv, args, envCheckCalls, checkResult, missing_vars,
                    out, launchCalls, port, cwd, imported, unresolved,
                    builderCalls, buildCalls, workflow, serveCalls, raised,
                    raisedAt >>

\* serve() is left by an exception, a keyboard interrupt among them
ServeRaise ==
    /\ pc = "serving"
    /\ \E kind \in Raisable : Terminate(TryOutcome(kind), kind)
    /\ UNCHANGED << env, argv, args, envCheckCalls, checkResult, missing_vars,
                    launchCalls, port, cwd, imported, unresolved, builderCalls,
                    buildCalls, workflow, serveCalls >>

Next ==
    \/ ParseArgs
    \/ EnvGate
    \/ LaunchImportServe
    \/ Chdir
    \/ ImportExecutors
    \/ ImportBuilder
    \/ BuildWorkflow
    \/ ServeCall
    \/ ServeReturn
    \/ ServeRaise

Spec == Init /\ [][Next]_vars

\* ------------------------------------------------------------ lifecycle
\* the startup state the run is in, read off the position of main:
\* EnvChecked once check_environment has returned and the gate let the run
\* through, GraphBuilt once build() has returned, Serving while serve()
\* blocks, Stopped / Failed by the exit status
Lifecycle ==
    CASE pc = "exited" /\ exitCode = 0 -> "Stopped"
      [] pc = "exited" /\ exitCode # 0 -> "Failed"
      [] pc = "serving"                -> "Serving"
      [] pc = "serve"                  -> "GraphBuilt"
      [] pc \in { "launch", "chdir", "import_executors", "import_builder",
                  "build" } /\ envCheckCalls > 0 -> "EnvChecked"
      [] OTHER                         -> "NotStarted"

\* ----------------------------------------------------------- properties
Range(seq) == { seq[i] : i \in 1..Len(seq) }

\* the required keys that are absent from the environment
UnsetKeys == { k \in RequiredKeys : env[k] = "UNSET" }

\* the required keys that hold the empty string
EmptyKeys == { k \in RequiredKeys : env[k] = "" }

\* the required keys printed by check_environment, between its two fixed lines
ReportedKeys == { out[i] : i \in { j \in 1..Len(out) : out[j] \in RequiredKeys } }

\* C1: when a non-empty set S of the required keys is unset and every other
\* key is non-empty, check_environment collects and prints exactly the keys
\* of S, each once, over all seven keys, and returns False.
C1_ExactlyTheUnsetKeys ==
    (envCheckCalls > 0 /\ EmptyKeys = {} /\ UnsetKeys # {}) =>
        /\ Range(missing_vars) = UnsetKeys
        /\ Len(missing_vars) = Cardinality(UnsetKeys)
        /\ ReportedKeys = UnsetKeys
        /\ Len(out) = Cardinality(UnsetKeys) + 3
        /\ checkResult = << FALSE >>

\* C1 case: three keys unset, the first required key among the set ones
C1_Witness ==
    /\ envCheckCalls > 0
    /\ EmptyKeys = {}
    /\ Cardinality(UnsetKeys) = 3
    /\ required_vars[1] \notin UnsetKeys
    /\ required_vars[7] \in UnsetKeys
    /\ Len(missing_vars) = 3

\* C2: check_environment returns True if and only if every required key holds
\* a non-empty value; a key holding the empty string is reported as missing
\* and makes the result False, exactly like an unset key.
C2_SuccessIffAllNonEmpty ==
    envCheckCalls > 0 =>
        /\ (checkResult = << TRUE >>) <=> (\A k \in RequiredKeys : env[k] = "value")
        /\ (checkResult = << FALSE >>) <=> (UnsetKeys \cup EmptyKeys # {})
        /\ \A k \in EmptyKeys : k \in Range(missing_vars) /\ k \in ReportedKeys
        /\ Range(missing_vars) = UnsetKeys \cup EmptyKeys

\* C2 case: one key is the empty string, all others are set
C2_Witness ==
    /\ envCheckCalls > 0
    /\ UnsetKeys = {}
    /\ Cardinality(EmptyKeys) = 1
    /\ checkResult = << FALSE >>

\* C3: without --no-env-check and with a required key missing, the process
\* exits with status 1 at the gate and launch_workflow_devui is never
\* entered: no chdir, no import, no builder call, no build, no serve().
C3_MissingKeyBlocksStartup ==
    (~argv.no_env_check /\ UnsetKeys \cup EmptyKeys # {}) =>
        /\ launchCalls = 0
        /\ cwd = "start_dir"
        /\ imported = {}
        /\ builderCalls = << >>
        /\ buildCalls = 0
        /\ workflow = << >>
        /\ serveCalls = << >>
        /\ pc \in { "main", "gate", "exited" }
        /\ pc = "exited" => exitCode = 1

\* C3 case: the gate has run on an environment with a missing key
C3_Witness ==
    /\ ~argv.no_env_check
    /\ UnsetKeys # {}
    /\ pc = "exited"
    /\ exitCode = 1
    /\ envCheckCalls = 1

\* C4: with --no-env-check, check_environment is never called whatever the
\* environment holds; the run goes on into launch_workflow_devui, and it does
\* not end with status 1 unless an exception was raised there.
C4_NoEnvCheckSkipsValidator ==
    argv.no_env_check =>
        /\ envCheckCalls = 0
        /\ checkResult = << >>
        /\ missing_vars = << >>
        /\ ReportedKeys = {}
        /\ pc \notin { "main", "gate", "launch" } => launchCalls = 1
        /\ exitCode = 1 => raised # None /\ IsException(raised)

\* C4 case: every key unset, and the run is blocked in serve()
C4_Witness ==
    /\ argv.no_env_check
    /\ UnsetKeys = RequiredKeys
    /\ pc = "serving"
    /\ workflow # << >>
    /\ Len(serveCalls) = 1

\* C5: a keyboard interrupt raised while serve() blocks is not handled inside
\* launch_workflow_devui; main reports the stop and the process ends with
\* status 0.  A normal return of serve() ends with status 0 as well.
C5_InterruptedServeExitsZero ==
    /\ (pc = "exited" /\ raisedAt = "serving" /\ raised = "KeyboardInterrupt") =>
           /\ exitCode = 0
           /\ out[Len(out)] = "stopped_by_user"
           /\ "error_launching" \notin Range(out)
           /\ "error_importing" \notin Range(out)
    /\ (pc = "exited" /\ raised = None /\ serveCalls # << >>) =>
           /\ exitCode = 0
           /\ out[Len(out)] = "launching"

\* C5 case: serve() was interrupted from the keyboard
C5_Witness ==
    /\ pc = "exited"
    /\ raisedAt = "serving"
    /\ raised = "KeyboardInterrupt"
    /\ exitCode = 0

\* C6: an exception other than a keyboard interrupt raised anywhere in
\* launch_workflow_devui is reported with a diagnostic line and ends the
\* process with status 1; main does not turn that exit into status 0, and
\* serve() is not called after the failure.
C6_FailureExitsOne ==
    (pc = "exited" /\ raised # None /\ IsException(raised)) =>
        /\ exitCode = 1
        /\ out[Len(out)] \in { "error_importing", "error_launching" }
        /\ "stopped_by_user" \notin Range(out)
        /\ raisedAt # "serving" => serveCalls = << >>
        /\ raisedAt = "serving" => Len(serveCalls) = 1

\* C6 case: the graph build raised an OSError
C6_Witness ==
    /\ pc = "exited"
    /\ raised = "OSError"
    /\ raisedAt = "build"
    /\ exitCode = 1

\* position of a lifecycle state in NotStarted -> EnvChecked -> GraphBuilt ->
\* Serving -> {Stopped | Failed}
Rank(st) ==
    CASE st = "NotStarted" -> 0
      [] st = "EnvChecked" -> 1
      [] st = "GraphBuilt" -> 2
      [] st = "Serving"    -> 3
      [] OTHER             -> 4

\* what every step keeps of the lifecycle: it never moves backwards, a final
\* state is never left, Serving is entered from GraphBuilt only, and
\* check_environment, build() and serve() each run at most once and only in
\* their own state
LifecycleStep ==
    /\ Rank(Lifecycle') >= Rank(Lifecycle)
    /\ Rank(Lifecycle) = 4 => Lifecycle' = Lifecycle
    /\ (Lifecycle' = "Serving" /\ Lifecycle # "Serving") => Lifecycle = "GraphBuilt"
    /\ envCheckCalls' # envCheckCalls =>
           pc = "gate" /\ envCheckCalls = 0 /\ workflow = << >> /\ raised = None
    /\ buildCalls' # buildCalls =>
           pc = "build" /\ buildCalls = 0 /\ serveCalls = << >> /\ raised = None
    /\ serveCalls' # serveCalls =>
           pc = "serve" /\ serveCalls = << >> /\ workflow # << >> /\ raised = None
    /\ raised # None => UNCHANGED << envCheckCalls, buildCalls, workflow, serveCalls >>

\* C7 (as stated): the lifecycle is strictly sequential; in particular the
\* graph is built only after check_environment has run and passed, and
\* serve() is entered only after the graph is built.
C7_Original_GraphBuiltOnlyAfterEnvChecked ==
    /\ serveCalls # << >> => workflow # << >>
    /\ workflow # << >> => checkResult = << TRUE >>
    /\ envCheckCalls <= 1 /\ buildCalls <= 1 /\ Len(serveCalls) <= 1

\* C7 (amended): the lifecycle never moves backwards and no state is entered
\* twice; Serving is entered only from GraphBuilt; the graph is built only
\* after check_environment has run and passed, or with --no-env-check, where
\* EnvChecked is skipped; a failure never re-runs check_environment, build()
\* or serve().
C7_LifecycleOneDirectional ==
    [][ /\ LifecycleStep
        /\ (Lifecycle' = "GraphBuilt" /\ Lifecycle # "GraphBuilt") =>
               \/ Lifecycle = "EnvChecked" /\ checkResult = << TRUE >>
               \/ Lifecycle = "NotStarted" /\ args[1].no_env_check
                    /\ envCheckCalls = 0
      ]_vars

\* C7 case: a run that passed check_environment failed while serving
C7_Witness ==
    /\ Lifecycle = "Failed"
    /\ raisedAt = "serving"
    /\ envCheckCalls = 1
    /\ buildCalls = 1
    /\ Len(serveCalls) = 1

\* the executors reachable from the members of frontier along edges
RECURSIVE ReachFrom(_, _)
ReachFrom(edges, frontier) ==
    LET more == frontier \cup { e[2] : e \in { d \in edges : d[1] \in frontier } }
    IN  IF more = frontier THEN frontier ELSE ReachFrom(edges, more)

InDegree(edges, n) == Cardinality({ e \in edges : e[2] = n })
OutDegree(edges, n) == Cardinality({ e \in edges : e[1] = n })

\* the shape the launcher declares, for a built workflow wf
FanOutShape(wf) ==
    LET edges == Range(wf.edges)
    IN  /\ wf.start = << "customer_data_executor" >>
        /\ InDegree(edges, "customer_data_executor") = 0
        /\ Len(wf.edges) = 3
        /\ edges = { << "customer_data_executor", "risk_analyzer_executor" >>,
                     << "risk_analyzer_executor", "compliance_report_executor" >>,
                     << "risk_analyzer_executor", "fraud_alert_executor" >> }
        /\ OutDegree(edges, "risk_analyzer_executor") = 2
        /\ \A n \in wf.executors : InDegree(edges, n) <= 1
        /\ wf.executors = Executors
        /\ ReachFrom(edges, { "customer_data_executor" }) = Executors
        /\ \A n \in wf.executors :
               n \notin ReachFrom(edges, { e[2] : e \in { d \in edges : d[1] = n } })

\* C8: the workflow that is built and handed to serve() has the single start
\* node customer_data with in-degree 0, exactly the three edges
\* customer_data -> risk_analyzer, risk_analyzer -> compliance_report and
\* risk_analyzer -> fraud_alert, out-degree 2 at risk_analyzer, no node of
\* in-degree above 1, no cycle, and all four nodes reachable from the start.
C8_GraphShape ==
    /\ workflow # << >> => FanOutShape(workflow[1])
    /\ \A i \in 1..Len(serveCalls) :
           /\ Len(serveCalls[i].entities) = 1
           /\ FanOutShape(serveCalls[i].entities[1])

\* C8 case: the built workflow has been handed to serve()
C8_Witness ==
    /\ pc = "serving"
    /\ Len(serveCalls) = 1
    /\ Len(builderCalls) = 4
    /\ buildCalls = 1

\* C9: when one of the four executor names cannot be resolved, the launch
\* fails before the builder is touched: no set_start_executor or add_edge
\* call, no build, no serve(), and the failure is reported as an import error
\* with exit status 1.
C9_UnresolvedExecutorFailsBeforeEdges ==
    unresolved # {} =>
        /\ builderCalls = << >>
        /\ buildCalls = 0
        /\ workflow = << >>
        /\ serveCalls = << >>
        /\ "WorkflowBuilder" \notin imported
        /\ imported \cap Executors = {}
        /\ pc = "exited"
        /\ exitCode = 1
        /\ raised = "ImportError"
        /\ out[Len(out)] = "error_importing"
        /\ "error_launching" \notin Range(out)

\* C9 case: only fraud_alert_executor is missing from the module
C9_Witness ==
    /\ unresolved = { "fraud_alert_executor" }
    /\ raisedAt = "import_executors"
    /\ exitCode = 1

\* C10: serve() is called at most once, and when it is called it gets the one
\* built workflow as its only entity and the port given by --port, or 8083
\* when --port is absent.
C10_ServeOncePortPassedThrough ==
    /\ Len(serveCalls) <= 1
    /\ pc \in { "serving" } => Len(serveCalls) = 1
    /\ \A i \in 1..Len(serveCalls) :
           /\ serveCalls[i].entities = << workflow[1] >>
           /\ serveCalls[i].auto_open
           /\ argv.port = << >> => serveCalls[i].port = 8083
           /\ argv.port # << >> => serveCalls[i].port = argv.port[1]
           /\ serveCalls[i].port = args[1].port
           /\ port = << serveCalls[i].port >>

\* C10 case: --port 9000 reached serve()
C10_Witness ==
    /\ argv.port = << 9000 >>
    /\ Len(serveCalls) = 1
    /\ serveCalls[1].port = 9000

====
